---- MODULE Spec2Model ----
(***************************************************************************)
(* A model of minitar (iptq/rust-tar): the USTAR header codecs of          *)
(* src/lib.rs (fixed byte arrays) and src/header.rs (typed Header with     *)
(* HeaderReader / HeaderWriter), and the archive operations of src/lib.rs  *)
(* (create, append, list, update, extract).  Bytes are naturals 0..255,    *)
(* byte strings and files are sequences of bytes, stream offsets count     *)
(* from 0 as in the code.                                                  *)
(***************************************************************************)
EXTENDS Integers, Sequences, FiniteSets, Bags, TLC

(***************************************************************************)
(* Program constants                                                       *)
(***************************************************************************)

\* The size of a header record and of a content block (the literal 512).
BLOCK == 512

\* const FOOTER_SIZE: usize = 1024
FOOTER_SIZE == 1024

\* const REGTYPE: char = '0'
REGTYPE == 48

\* const MAGIC: &str = "ustar"
MAGIC == <<117, 115, 116, 97, 114>>

\* const VERSION: &str = "00"
VERSION == <<48, 48>>

\* The ASCII space that stands in for the checksum field while summing.
SPACE == 32

(***************************************************************************)
(* Bounds of the model                                                     *)
(***************************************************************************)

\* The largest number of entries an archive of the model holds.
MaxEntries == 2

\* The largest number of whole content blocks of the sizes the scanners'
\* moves are taken on.
MaxAlignBlocks == 6

(***************************************************************************)
(* Byte-string helpers                                                     *)
(***************************************************************************)

\* iter::repeat(b).take(n)
Repeat(b, n) == [i \in 1..n |-> b]

Zeros(n) == Repeat(0, n)

\* bytes.iter().take(n)
Take(s, n) == IF Len(s) <= n THEN s ELSE SubSeq(s, 1, n)

\* The bytes of a stream at offsets [from, from + n).
Slice(s, from, n) == SubSeq(s, from + 1, from + n)

\* bytes.iter().map(|x| *x as u32).sum::<u32>(): the sum of the bytes, taken
\* as the size of the bag that holds index i as many times as s[i] says.
\* At most 512 bytes are ever summed, so the u32 sum cannot wrap.
SumBytes(s) ==
  BagCardinality([i \in {j \in 1..Len(s) : s[j] # 0} |-> s[i]])

\* The index of the first zero byte of s, or Len(s) + 1 when it has none.
FirstZero(s) ==
  LET z == {i \in 1..Len(s) : s[i] = 0}
  IN  IF z = {} THEN Len(s) + 1 ELSE CHOOSE i \in z : \A j \in z : i <= j

HasNul(s) == FirstZero(s) <= Len(s)

\* bytes.iter().take_while(|x| *x != 0)
TakeWhileNonZero(s) == SubSeq(s, 1, FirstZero(s) - 1)

\* The length of the UTF-8 character a byte begins: 1 below 128, 2 to 4
\* for the lead bytes C2..F4, 0 for a byte that begins none.
Utf8Len(b) ==
  IF b < 128 THEN 1
  ELSE IF b \in 194..223 THEN 2
  ELSE IF b \in 224..239 THEN 3
  ELSE IF b \in 240..244 THEN 4
  ELSE 0

\* A continuation byte: 80..BF.
IsCont(b) == b \in 128..191

\* The byte right after the lead byte b is one UTF-8 allows there: a
\* continuation byte, narrowed after E0, ED, F0 and F4 (no overlong form,
\* no surrogate, nothing above U+10FFFF).
SecondFits(b, c) ==
  /\ c >= (IF b = 224 THEN 160 ELSE IF b = 240 THEN 144 ELSE 128)
  /\ c <= (IF b = 237 THEN 159 ELSE IF b = 244 THEN 143 ELSE 191)

\* The character that begins at index i of s, of n bytes by its first, is
\* whole: the continuation bytes its length asks for follow it, and no more.
CharFits(s, i, n) ==
  /\ n > 0
  /\ i + n - 1 <= Len(s)
  /\ n >= 2 => SecondFits(s[i], s[i + 1])
  /\ \A k \in 2..(n - 1) : IsCont(s[i + k])
  /\ i + n <= Len(s) => ~IsCont(s[i + n])

\* String::from_utf8 / str::from_utf8 accepts the bytes: they are
\* well-formed UTF-8.  Bytes all below 128 are; otherwise every byte that
\* is not a continuation byte begins a whole character, and the first byte
\* begins one.
IsUtf8(s) ==
  \/ \A i \in 1..Len(s) : s[i] < 128
  \/ /\ ~IsCont(s[1])
     /\ \A i \in 1..Len(s) :
          IsCont(s[i]) \/ CharFits(s, i, Utf8Len(s[i]))

\* The integers of the model end at 2^31 - 1.  A number of 2^31 or more (a
\* u32 or a u64 can be one) is held as the sequence of its octal digits,
\* ASCII, most significant first, no leading zero; such a sequence is a bag
\* and an integer is not, which is how the two are told apart.
IsWide(n) == IsABag(n)

\* The octal digits of n, most significant first, as ASCII bytes.
RECURSIVE OctDigits(_)
OctDigits(n) ==
  IF n < 8 THEN <<48 + n>> ELSE Append(OctDigits(n \div 8), 48 + (n % 8))

\* The octal digits of a number, wide or not.
DigitsOf(n) == IF IsWide(n) THEN n ELSE OctDigits(n)

\* d zero-padded on the left to at least width digits.
PadLeft(d, width) ==
  IF Len(d) >= width THEN d ELSE Repeat(48, width - Len(d)) \o d

\* format!("{:0width$o}", n): at least width digits, zero-padded on the left;
\* a number that needs more digits gets them all.
FormatOct(n, width) == PadLeft(DigitsOf(n), width)

\* format!("{:0width$o}", n) of an i64: a negative n is put out as its
\* 64-bit two's complement, 22 digits: a 1, then the 21 digits of -n - 1
\* each taken from 7.  The model keeps n above -2^31.
FormatOctI64(n, width) ==
  IF n >= 0 THEN FormatOct(n, width)
  ELSE LET m == FormatOct(-n - 1, 21)
       IN  <<49>> \o [i \in 1..21 |-> 103 - m[i]]

\* The value of a string of octal digits.
RECURSIVE OctValue(_, _)
OctValue(s, n) ==
  IF n = 0 THEN 0 ELSE 8 * OctValue(s, n - 1) + (s[n] - 48)

\* The digits of an octal numeral from its first nonzero digit on: none
\* for zero.
Significant(body) ==
  LET nz == {i \in 1..Len(body) : body[i] # 48}
  IN  IF nz = {} THEN <<>>
      ELSE SubSeq(body, CHOOSE i \in nz : \A j \in nz : i <= j, Len(body))

\* The significant octal digits d denote a number below 2^bits: 2^bits - 1
\* has (bits + 2) / 3 digits, the first of them 7 when bits is a multiple
\* of 3 and 2^(bits mod 3) - 1 otherwise (37777777777 for 32 bits,
\* 1777777777777777777777 for 64).
BelowPow2(d, bits) ==
  LET digits == (bits + 2) \div 3
      top == IF bits % 3 = 0 THEN 7 ELSE 2 ^ (bits % 3) - 1
  IN  Len(d) < digits \/ (Len(d) = digits /\ d[1] <= 48 + top)

\* The number the significant digits d denote, in a type of the given
\* width: an error (PosOverflow) when it does not fit the type, the number
\* when it fits the integers of the model, and its digits otherwise.
NumberOf(d, bits) ==
  IF ~BelowPow2(d, bits) THEN [ok |-> FALSE, val |-> 0]
  ELSE IF BelowPow2(d, 31) THEN [ok |-> TRUE, val |-> OctValue(d, Len(d))]
  ELSE [ok |-> TRUE, val |-> d]

\* u32::from_str_radix(s, 8) (bits = 32) and u64::from_str_radix(s, 8)
\* (bits = 64): an optional leading '+', then one or more digits 0..7
\* that denote a number of the type; anything else is an error, a number
\* too large for the type included.
FromStrRadix8(s, bits) ==
  LET body == IF Len(s) > 0 /\ s[1] = 43 THEN Tail(s) ELSE s
  IN  IF Len(body) = 0 \/ \E i \in 1..Len(body) : body[i] < 48 \/ body[i] > 55
      THEN [ok |-> FALSE, val |-> 0]
      ELSE NumberOf(Significant(body), bits)

\* a & b on naturals.
RECURSIVE BitAnd(_, _)
BitAnd(a, b) ==
  IF a = 0 \/ b = 0 THEN 0
  ELSE 2 * BitAnd(a \div 2, b \div 2) + ((a % 2) * (b % 2))

(***************************************************************************)
(* The files the operations are given (src/lib.rs reads them through       *)
(* fs::metadata, fs::read and the user and group database)                 *)
(***************************************************************************)

\* "a.txt", "b.txt", "c.txt"
NameA == <<97, 46, 116, 120, 116>>
NameB == <<98, 46, 116, 120, 116>>
NameC == <<99, 46, 116, 120, 116>>

\* "hello"
Hello == <<104, 101, 108, 108, 111>>

\* n content bytes that differ from place to place, the first of them 0.
Pattern(n, k) == [i \in 1..n |-> ((i - 1) * k) % 256]

\* A regular file: its name, its bytes and what fs::metadata and the user
\* and group database say of it (st_mode 0o100644, uid and gid 1000; len
\* is metadata.len(), the number of its bytes).
MkFile(name, content) ==
  [name |-> name, content |-> content, len |-> Len(content),
   mode |-> 33188, uid |-> 1000,
   gid |-> 1000, mtime |-> 1700000000, uname |-> <<117, 115, 114>>,
   gname |-> <<103, 114, 112>>, devmajor |-> 8, devminor |-> 1,
   mtime_nsec |-> 0]

\* a.txt holds "hello" (5 bytes); b.txt is empty; c.txt fills one block
\* exactly; a.txt rewritten holds one block and one byte.
FileA == MkFile(NameA, Hello)
FileB == MkFile(NameB, <<>>)
FileC == MkFile(NameC, Pattern(BLOCK, 7))
FileA2 == MkFile(NameA, Pattern(BLOCK + 1, 11))

Files == {FileA, FileB, FileC, FileA2}

\* One call sees one content per name.
Consistent(fs) ==
  \A i, j \in 1..Len(fs) : fs[i].name = fs[j].name => fs[i] = fs[j]

\* The file lists of one call: none, one or two files.
FileLists ==
  {fs \in {<<>>} \cup {<<f>> : f \in Files}
            \cup {<<f, g>> : f \in Files, g \in Files} : Consistent(fs)}

(***************************************************************************)
(* src/lib.rs: struct Header and its codec                                 *)
(***************************************************************************)

\* CString::new(s)?.to_bytes_with_nul(): the bytes and a terminator.
WithNul(s) == Append(s, 0)

\* name.iter().cloned().chain(iter::repeat(0u8)).take(n).collect()
PadTake(s, n) == Take(s \o Zeros(n), n)

\* Header::as_bytes: the seventeen fields in order.
as_bytes(h) ==
  h.name \o h.mode \o h.uid \o h.gid \o h.size \o h.mtime \o h.checksum
  \o <<h.typeflag>> \o h.linkname \o h.magic \o h.version \o h.uname
  \o h.gname \o h.devmajor \o h.devminor \o h.prefix \o h.padding

\* fill_checksum with the sum taken over the record as it stands, its
\* checksum field the eight zero bytes from_file starts with.
fill_checksum_unspaced(h) ==
  LET text == WithNul(FormatOct(SumBytes(as_bytes(h)), 7))
  IN  [ok |-> Len(text) = 8, header |-> [h EXCEPT !.checksum = text]]

\* Header::fill_checksum: the checksum field is set to eight spaces, every
\* byte of the record is summed, and the sum is written as seven octal
\* digits and a terminator.  try_into fails unless that makes eight bytes.
fill_checksum(h) ==
  LET spaced == [h EXCEPT !.checksum = Repeat(SPACE, 8)]
      text == WithNul(FormatOct(SumBytes(as_bytes(spaced)), 7))
  IN  [ok |-> Len(text) = 8, header |-> [spaced EXCEPT !.checksum = text]]

\* Header::from_file.  CString::new fails on an interior NUL, try_into
\* fails on a field whose text does not have the field's width.
from_file(f) ==
  LET mode == WithNul(FormatOct(BitAnd(f.mode, 777), 7))
      uid == WithNul(FormatOct(f.uid, 7))
      gid == WithNul(FormatOct(f.gid, 7))
      size == WithNul(FormatOct(f.len, 11))
      mtime == WithNul(FormatOctI64(f.mtime, 11))
      devmajor == WithNul(FormatOct(f.devmajor, 7))
      devminor == WithNul(FormatOct(f.devminor, 7))
      header ==
        [name |-> PadTake(WithNul(f.name), 100), mode |-> mode, uid |-> uid,
         gid |-> gid, size |-> size, mtime |-> mtime,
         checksum |-> Zeros(8), typeflag |-> REGTYPE,
         linkname |-> Zeros(100), magic |-> WithNul(MAGIC),
         version |-> VERSION, uname |-> PadTake(WithNul(f.uname), 32),
         gname |-> PadTake(WithNul(f.gname), 32), devmajor |-> devmajor,
         devminor |-> devminor, prefix |-> Zeros(155),
         padding |-> Zeros(12)]
      fits ==
        /\ ~HasNul(f.name) /\ ~HasNul(f.uname) /\ ~HasNul(f.gname)
        /\ Len(mode) = 8 /\ Len(uid) = 8 /\ Len(gid) = 8
        /\ Len(size) = 12 /\ Len(mtime) = 12
        /\ Len(devmajor) = 8 /\ Len(devminor) = 8
      filled == fill_checksum(header)
  IN  IF fits /\ filled.ok
      THEN [ok |-> TRUE, header |-> filled.header]
      ELSE [ok |-> FALSE, header |-> header]

\* Header::from_bytes: the record sliced at the fixed offsets; an error
\* unless it is given exactly 512 bytes.  No field is parsed or verified.
from_bytes(bytes) ==
  IF Len(bytes) # BLOCK
  THEN [ok |-> FALSE, header |-> <<>>]
  ELSE [ok |-> TRUE,
        header |->
          [name |-> Slice(bytes, 0, 100), mode |-> Slice(bytes, 100, 8),
           uid |-> Slice(bytes, 108, 8), gid |-> Slice(bytes, 116, 8),
           size |-> Slice(bytes, 124, 12), mtime |-> Slice(bytes, 136, 12),
           checksum |-> Slice(bytes, 148, 8), typeflag |-> bytes[157],
           linkname |-> Slice(bytes, 157, 100),
           magic |-> Slice(bytes, 257, 6), version |-> Slice(bytes, 263, 2),
           uname |-> Slice(bytes, 265, 32), gname |-> Slice(bytes, 297, 32),
           devmajor |-> Slice(bytes, 329, 8),
           devminor |-> Slice(bytes, 337, 8),
           prefix |-> Slice(bytes, 345, 155),
           padding |-> Slice(bytes, 500, 12)]]

(***************************************************************************)
(* src/lib.rs: the archive writer                                          *)
(***************************************************************************)

\* archive.write_all(bytes) at the stream position pos: the bytes replace
\* what was there and extend the file where they pass its end.
WriteAt(stream, pos, bytes) ==
  SubSeq(stream, 1, pos) \o bytes
  \o SubSeq(stream, pos + Len(bytes) + 1, Len(stream))

\* let padding_size = 512 - (file_size % 512) as usize;
padding_size(file_size) == BLOCK - (file_size % BLOCK)

\* Header::from_file on each file of the model, computed once.
HeaderOf == [f \in Files |-> from_file(f)]

\* One turn of the loop of write_files_to_archive: the header, the content
\* and, if padding_size > 0, the padding of one file.
EntryBytes(f) ==
  as_bytes(HeaderOf[f].header) \o f.content
  \o (IF padding_size(Len(f.content)) > 0
      THEN Zeros(padding_size(Len(f.content))) ELSE <<>>)

\* The loop of write_files_to_archive from file i on; a file whose header
\* cannot be built ends the call with what was written so far.
RECURSIVE WriteEntries(_, _, _, _)
WriteEntries(stream, pos, files, i) ==
  IF i > Len(files) THEN [ok |-> TRUE, stream |-> stream, pos |-> pos]
  ELSE IF ~HeaderOf[files[i]].ok
       THEN [ok |-> FALSE, stream |-> stream, pos |-> pos]
       ELSE LET bytes == EntryBytes(files[i])
            IN  WriteEntries(WriteAt(stream, pos, bytes), pos + Len(bytes),
                             files, i + 1)

\* write_files_to_archive: every file in order, then the footer.
write_files_to_archive(stream, pos, files) ==
  LET w == WriteEntries(stream, pos, files, 1)
  IN  IF w.ok
      THEN [ok |-> TRUE, err |-> "none",
            stream |-> WriteAt(w.stream, w.pos, Zeros(FOOTER_SIZE))]
      ELSE [ok |-> FALSE, err |-> "header", stream |-> w.stream]

\* create_archive: fs::File::create truncates, writing starts at offset 0.
create_archive(files) == write_files_to_archive(<<>>, 0, files)

\* append_to_archive that writes from the end of the file, after the old
\* footer.
append_after_footer(stream, files) ==
  IF Len(stream) < FOOTER_SIZE
  THEN [ok |-> FALSE, err |-> "io", stream |-> stream]
  ELSE write_files_to_archive(stream, Len(stream), files)

\* append_to_archive: seek to FOOTER_SIZE bytes before the end (an error
\* when the file is shorter than that), then write from there.
append_to_archive(stream, files) ==
  IF Len(stream) < FOOTER_SIZE
  THEN [ok |-> FALSE, err |-> "io", stream |-> stream]
  ELSE write_files_to_archive(stream, Len(stream) - FOOTER_SIZE, files)

(***************************************************************************)
(* src/lib.rs: the scanners                                                *)
(***************************************************************************)

\* header_bytes.iter().map(|x| *x as u32).sum::<u32>() == 0
IsFooterBlock(block) == SumBytes(block) = 0

\* The largest power of two that is at most n (n >= 1).
RECURSIVE Pow2Below(_, _)
Pow2Below(n, p) == IF 2 * p > n THEN p ELSE Pow2Below(n, 2 * p)

\* size as f32: the nearest value with a 24-bit significand, ties to even.
\* Every such value of 2^24 or more is a whole number.
AsF32(n) ==
  IF n < 16777216 THEN n
  ELSE LET ulp == Pow2Below(n, 1) \div 8388608
           q == n \div ulp
           r == n % ulp
       IN  IF 2 * r > ulp \/ (2 * r = ulp /\ q % 2 = 1)
           THEN (q + 1) * ulp ELSE q * ulp

\* let num_content_blocks = ((size as f32) / 512.0).ceil() as i64;
num_content_blocks(size) == (AsF32(size) + (BLOCK - 1)) \div BLOCK

\* archive.seek(io::SeekFrom::Current(num_content_blocks * 512)): how far
\* the list moves past a header of the given size.
ListAdvance(size) == num_content_blocks(size) * BLOCK

\* let num_padding_bytes = 512 - (size % 512);
num_padding_bytes(size) == BLOCK - (size % BLOCK)

\* What both scanners take from a header: the name and the size, each the
\* field's bytes before its first NUL, as UTF-8, the size parsed as octal.
ScanFields(header) ==
  LET name == TakeWhileNonZero(header.name)
      size_str == TakeWhileNonZero(header.size)
      size == FromStrRadix8(size_str, 32)
  IN  IF ~IsUtf8(name) \/ ~IsUtf8(size_str)
      THEN [ok |-> FALSE, err |-> "utf8", name |-> name, size |-> 0]
      ELSE IF ~size.ok
      THEN [ok |-> FALSE, err |-> "parse", name |-> name, size |-> 0]
      ELSE [ok |-> TRUE, err |-> "none", name |-> name, size |-> size.val]

\* The loop of get_archive_file_list from offset pos on.  visited lists the
\* offsets of the blocks read as headers, names the names pushed.  Past a
\* size of 2^31 or more the seek lands beyond the end of every stream of
\* the model, and the read that follows fails.
RECURSIVE ListLoop(_, _, _, _)
ListLoop(stream, pos, names, visited) ==
  IF pos + BLOCK > Len(stream)
  THEN [ok |-> FALSE, err |-> "eof", names |-> names, visited |-> visited]
  ELSE LET block == Slice(stream, pos, BLOCK)
           seen == Append(visited, pos)
           f == ScanFields(from_bytes(block).header)
       IN  IF IsFooterBlock(block)
           THEN [ok |-> TRUE, err |-> "none", names |-> names,
                 visited |-> seen]
           ELSE IF ~f.ok
           THEN [ok |-> FALSE, err |-> f.err, names |-> names,
                 visited |-> seen]
           ELSE IF IsWide(f.size)
           THEN [ok |-> FALSE, err |-> "eof", names |-> Append(names, f.name),
                 visited |-> seen]
           ELSE ListLoop(stream, pos + BLOCK + ListAdvance(f.size),
                         Append(names, f.name), seen)

\* get_archive_file_list
get_archive_file_list(stream) == ListLoop(stream, 0, <<>>, <<>>)

\* The chunk loop of extract_from_archive: 512 bytes at a time, the last
\* chunk shorter; read_exact fails when the stream ends inside a chunk, and
\* the chunks before it have been written to the file.  A count of 2^31 or
\* more outlasts every stream of the model: it is left as it is while the
\* chunks are read, and the loop ends where the stream does.
RECURSIVE ReadChunks(_, _, _, _)
ReadChunks(stream, pos, remaining_bytes, data) ==
  IF ~IsWide(remaining_bytes) /\ remaining_bytes = 0
  THEN [ok |-> TRUE, data |-> data, pos |-> pos]
  ELSE LET chunk_size ==
             IF IsWide(remaining_bytes) \/ remaining_bytes >= BLOCK
             THEN BLOCK ELSE remaining_bytes
       IN  IF pos + chunk_size > Len(stream)
           THEN [ok |-> FALSE, data |-> data, pos |-> pos]
           ELSE ReadChunks(stream, pos + chunk_size,
                           IF IsWide(remaining_bytes) THEN remaining_bytes
                           ELSE remaining_bytes - chunk_size,
                           data \o Slice(stream, pos, chunk_size))

\* How far extract moves past a header of the given size: the chunk loop
\* reads size bytes in all, the seek skips num_padding_bytes more.
ExtractAdvance(size) == size + num_padding_bytes(size)

\* The files of a directory are a function from names to contents; the
\* directory extract is run in holds none.
EmptyDir == [n \in {} |-> <<>>]

\* The indices a component of the path begins at: a byte that is not '/'
\* (47), first of the path or right after a '/'.
ComponentStarts(s) ==
  {i \in 1..Len(s) : s[i] # 47 /\ (i = 1 \/ s[i - 1] = 47)}

\* The component that begins at i: the bytes up to the next '/' or the end.
ComponentAt(s, i) ==
  LET ends == {j \in i..Len(s) : j = Len(s) \/ s[j + 1] = 47}
  IN  SubSeq(s, i, CHOOSE j \in ends : \A k \in ends : j <= k)

\* The components of a path in order: the runs of bytes between its '/',
\* the empty ones left out.
Components(name) ==
  LET starts == ComponentStarts(name)
      Nth(k) == CHOOSE i \in starts :
                  Cardinality({j \in starts : j < i}) = k - 1
  IN  [k \in 1..Cardinality(starts) |-> ComponentAt(name, Nth(k))]

\* A place in the file system is the sequence of the components that lead
\* to it from the root, which is <<>>.  A file system is the place of the
\* working directory (cwd), the places that are directories (dirs) and the
\* regular files, a function from their places to their contents.  Every
\* directory can be written to; there are no links.
Parent(place) ==
  IF place = <<>> THEN <<>> ELSE SubSeq(place, 1, Len(place) - 1)

\* The file system where the working directory is at cwd and holds the
\* files of dir, a function from names to contents, with nothing else but
\* the directories that lead to it.
FsAround(cwd, dir) ==
  [cwd |-> cwd,
   dirs |-> {SubSeq(cwd, 1, k) : k \in 0..Len(cwd)},
   files |-> [q \in {Append(cwd, n) : n \in DOMAIN dir} |-> dir[q[Len(q)]]]]

\* The working directory of the runs: /w/x.
WorkDir == << <<119>>, <<120>> >>

\* The files right in the working directory, by name.
WorkFiles(fs) ==
  LET here == {q \in DOMAIN fs.files : Parent(q) = fs.cwd /\ q # <<>>}
  IN  [n \in {q[Len(q)] : q \in here} |-> fs.files[Append(fs.cwd, n)]]

\* The files anywhere else, by place.
OtherFiles(fs) ==
  LET there == {q \in DOMAIN fs.files : Parent(q) # fs.cwd \/ q = <<>>}
  IN  [q \in there |-> fs.files[q]]

\* The directory the components before the last lead to, from cur on: "."
\* stays, ".." goes to the parent (the root is its own), a name goes into
\* the directory of that name and fails when there is none.
RECURSIVE Walk(_, _, _, _)
Walk(fs, comps, i, cur) ==
  IF i >= Len(comps) THEN [ok |-> TRUE, at |-> cur]
  ELSE IF comps[i] = <<46>> THEN Walk(fs, comps, i + 1, cur)
  ELSE IF comps[i] = <<46, 46>> THEN Walk(fs, comps, i + 1, Parent(cur))
  ELSE IF Append(cur, comps[i]) \in fs.dirs
  THEN Walk(fs, comps, i + 1, Append(cur, comps[i]))
  ELSE [ok |-> FALSE, at |-> cur]

\* fs::File::create at the name last in the directory the walk w reached:
\* it fails when the walk did, or when a directory is at that place.
CreateAt(fs, w, last) ==
  IF ~w.ok \/ Append(w.at, last) \in fs.dirs
  THEN [ok |-> FALSE, err |-> "io", file |-> <<>>]
  ELSE [ok |-> TRUE, err |-> "none", file |-> Append(w.at, last)]

\* fs::File::create of a path with the components comps: a path that names
\* no file (empty, "/", ending in '/', "." or "..") fails; otherwise the
\* walk starts at the root for an absolute path, at the working directory
\* for any other.
CreateIn(fs, name, comps) ==
  IF \/ comps = <<>>
     \/ name[Len(name)] = 47
     \/ comps[Len(comps)] \in {<<46>>, <<46, 46>>}
  THEN [ok |-> FALSE, err |-> "io", file |-> <<>>]
  ELSE CreateAt(fs,
                Walk(fs, comps, 1, IF name[1] = 47 THEN <<>> ELSE fs.cwd),
                comps[Len(comps)])

\* fs::File::create(name) in the file system fs: the place of the file it
\* creates or truncates, or the failure of the call (an io error).
CreateTarget(fs, name) == CreateIn(fs, name, Components(name))

\* The file opened for writing without truncation: what it held beyond the
\* written bytes stays.
PutFile_no_truncate(dir, name, data) ==
  LET old == IF name \in DOMAIN dir THEN dir[name] ELSE <<>>
  IN  (name :> (data \o SubSeq(old, Len(data) + 1, Len(old)))) @@ dir

\* fs::File::create(name) followed by the writes: the file at name holds
\* data, whatever it held.
PutFile(dir, name, data) == (name :> data) @@ dir

RECURSIVE ExtractLoop(_, _, _, _)

\* One turn of the loop of extract_from_archive past the footer test, on
\* the fields f parsed from the header at pos: the file is created, the
\* content read into it, the padding skipped, and the loop goes on.
ExtractEntry(stream, pos, fs, seen, f) ==
  LET t == CreateTarget(fs, f.name)
      c == ReadChunks(stream, pos + BLOCK, f.size, <<>>)
  IN  IF ~f.ok
      THEN [ok |-> FALSE, err |-> f.err, fs |-> fs, visited |-> seen]
      ELSE IF ~t.ok
      THEN [ok |-> FALSE, err |-> t.err, fs |-> fs, visited |-> seen]
      ELSE IF ~c.ok
      THEN [ok |-> FALSE, err |-> "eof",
            fs |-> [fs EXCEPT !.files = PutFile(fs.files, t.file, c.data)],
            visited |-> seen]
      ELSE ExtractLoop(stream, c.pos + num_padding_bytes(f.size),
                       [fs EXCEPT !.files = PutFile(fs.files, t.file, c.data)],
                       seen)

\* The loop of extract_from_archive from offset pos on: the header is read,
\* tested for the footer, and its fields are parsed once.
ExtractLoop(stream, pos, fs, visited) ==
  IF pos + BLOCK > Len(stream)
  THEN [ok |-> FALSE, err |-> "eof", fs |-> fs, visited |-> visited]
  ELSE LET block == Slice(stream, pos, BLOCK)
           seen == Append(visited, pos)
       IN  IF IsFooterBlock(block)
           THEN [ok |-> TRUE, err |-> "none", fs |-> fs, visited |-> seen]
           ELSE CHOOSE r \in {ExtractEntry(stream, pos, fs, seen, f) :
                               f \in {ScanFields(from_bytes(block).header)}} :
                  TRUE

\* What extract_from_archive leaves: the outcome r of the loop, with the
\* files of the working directory (dir, by name) and the files it made
\* anywhere else (other, by place).
Extracted(r) ==
  [ok |-> r.ok, err |-> r.err, visited |-> r.visited, fs |-> r.fs,
   dir |-> WorkFiles(r.fs), other |-> OtherFiles(r.fs)]

\* extract_from_archive, run in the file system fs.
extract_from_archive(stream, fs) ==
  CHOOSE e \in {Extracted(r) : r \in {ExtractLoop(stream, 0, fs, <<>>)}} :
    TRUE

\* The set of the elements of a sequence.
Range(s) == {s[i] : i \in 1..Len(s)}

\* The names a call was given.
NamesOf(files) == [i \in 1..Len(files) |-> files[i].name]

\* update_archive without the superset test.
update_archive_untested(stream, files) ==
  LET existing_files == get_archive_file_list(stream)
  IN  IF ~existing_files.ok
      THEN [ok |-> FALSE, err |-> existing_files.err, stream |-> stream]
      ELSE append_to_archive(stream, files)

\* update_archive: the list of the archive (its error is the call's), the
\* superset test on the two sets of names, then append_to_archive.
update_archive(stream, files) ==
  LET existing_files == get_archive_file_list(stream)
  IN  IF ~existing_files.ok
      THEN [ok |-> FALSE, err |-> existing_files.err, stream |-> stream]
      ELSE IF ~(Range(NamesOf(files)) \subseteq Range(existing_files.names))
      THEN [ok |-> FALSE, err |-> "policy", stream |-> stream]
      ELSE append_to_archive(stream, files)

(***************************************************************************)
(* src/header.rs: struct Header, HeaderWriter and HeaderReader             *)
(*                                                                         *)
(* A Header value is a record: name, uname, gname and prefix are byte      *)
(* strings, mode, uid, gid and size naturals, mtime a SystemTime           *)
(* [secs, nanos] after the epoch, linkname an Option [some, path], magic   *)
(* and version byte arrays.  devmajor and devminor, u64 that any eight     *)
(* bytes of a record decode to, are kept as their eight little-endian      *)
(* bytes, the form bincode writes and reads them in.                       *)
(***************************************************************************)

NoPath == [some |-> FALSE, path |-> <<>>]

SomePath(p) == [some |-> TRUE, path |-> p]

\* bincode, fixed-width integers: a u64 as eight bytes, least significant
\* first.
RECURSIVE LEBytes(_, _)
LEBytes(n, k) ==
  IF k = 0 THEN <<>> ELSE <<n % 256>> \o LEBytes(n \div 256, k - 1)

LE8(n) == LEBytes(n, 8)

\* Header::new(path): the header of a file, from its metadata.
Header_new(f) ==
  [name |-> f.name, mode |-> f.mode, uid |-> f.uid, gid |-> f.gid,
   size |-> f.len,
   mtime |-> [secs |-> f.mtime, nanos |-> f.mtime_nsec],
   typeflag |-> REGTYPE, linkname |-> NoPath, magic |-> WithNul(MAGIC),
   version |-> VERSION, uname |-> f.uname, gname |-> f.gname,
   devmajor |-> LE8(f.devmajor), devminor |-> LE8(f.devminor),
   prefix |-> <<>>]

\* HeaderWriter::write_cstring: CString::new fails on an interior NUL; the
\* bytes are written and then len - bytes.len() zeros, a subtraction that
\* overflows (a panic) when the string is longer than the field.  A string
\* as long as the field is written whole, with no terminator.
write_cstring(string, len) ==
  IF HasNul(string) THEN [ok |-> FALSE, err |-> "nul", bytes |-> <<>>]
  ELSE IF Len(string) > len
  THEN [ok |-> FALSE, err |-> "panic", bytes |-> string]
  ELSE [ok |-> TRUE, err |-> "none", bytes |-> string \o Zeros(len - Len(string))]

\* HeaderWriter::write_octal_32 and write_octal_64: len - 1 zero-padded
\* octal digits, which must be exactly len - 1 characters.
write_octal(num, len) ==
  LET s == FormatOct(num, len - 1)
  IN  IF Len(s) # len - 1 THEN [ok |-> FALSE, err |-> "ensure", bytes |-> <<>>]
      ELSE write_cstring(s, len)

\* HeaderWriter::write_time: duration_since(UNIX_EPOCH) fails for a time
\* before 1970; otherwise the whole seconds in octal.
write_time(time, len) ==
  IF ~IsWide(time.secs) /\ time.secs < 0
  THEN [ok |-> FALSE, err |-> "time", bytes |-> <<>>]
  ELSE write_octal(time.secs, len)

\* HeaderWriter::inner_write of a fixed array.
Fixed(bytes) == [ok |-> TRUE, err |-> "none", bytes |-> bytes]

\* The writes of a sequence of fields, up to the first that fails, with the
\* bytes that one put out before it failed.
RECURSIVE WriteFields(_, _, _)
WriteFields(fields, i, out) ==
  IF i > Len(fields) THEN [ok |-> TRUE, err |-> "none", bytes |-> out]
  ELSE IF ~fields[i].ok
  THEN [ok |-> FALSE, err |-> fields[i].err, bytes |-> out \o fields[i].bytes]
  ELSE WriteFields(fields, i + 1, out \o fields[i].bytes)

\* The fields HeaderWriter::write puts out, given the one of the checksum.
HeaderFields(h, checksum) ==
  << write_cstring(h.name, 100), write_octal(h.mode, 8),
     write_octal(h.uid, 8), write_octal(h.gid, 8), write_octal(h.size, 12),
     write_time(h.mtime, 12), checksum, Fixed(<<h.typeflag>>),
     Fixed(Zeros(100)), Fixed(h.magic), Fixed(h.version),
     write_cstring(h.uname, 32), write_cstring(h.gname, 32),
     Fixed(h.devmajor), Fixed(h.devminor),
     write_cstring(h.prefix, 155), Fixed(Zeros(12)) >>

\* HeaderWriter::write(false): the record with eight spaces for a checksum.
write_unsummed(h) == WriteFields(HeaderFields(h, Fixed(Repeat(SPACE, 8))), 1, <<>>)

\* Header::compute_checksum: the sum of the bytes write(false) puts out.
compute_checksum(h) ==
  LET w == write_unsummed(h)
  IN  [ok |-> w.ok, err |-> w.err, sum |-> SumBytes(w.bytes)]

\* HeaderWriter::write(true) and Header::write: the record with its
\* checksum, computed when the writer reaches the field.
Header_write(h) ==
  LET c == compute_checksum(h)
      field == IF c.ok THEN write_octal(c.sum, 8)
               ELSE [ok |-> FALSE, err |-> c.err, bytes |-> <<>>]
  IN  WriteFields(HeaderFields(h, field), 1, <<>>)

\* HeaderReader::read_cstring: the field up to its first NUL, an error when
\* it has none.
read_cstring(field) ==
  IF ~HasNul(field) THEN [ok |-> FALSE, err |-> "not null-terminated", val |-> <<>>]
  ELSE [ok |-> TRUE, err |-> "none", val |-> TakeWhileNonZero(field)]

\* String::from_utf8 on what read_cstring gave.
as_string(c) ==
  IF c.ok /\ ~IsUtf8(c.val) THEN [ok |-> FALSE, err |-> "utf8", val |-> <<>>]
  ELSE c

\* HeaderReader::read_string: read_cstring, then UTF-8.
read_string(field) == as_string(read_cstring(field))

\* u32::from_str_radix(&string, 8) (bits = 32) or u64::from_str_radix
\* (bits = 64) on what read_string gave.
parse_octal(str, bits) ==
  LET int == FromStrRadix8(str.val, bits)
  IN  IF ~str.ok THEN [ok |-> FALSE, err |-> str.err, val |-> 0]
      ELSE IF ~int.ok THEN [ok |-> FALSE, err |-> "parse", val |-> 0]
      ELSE [ok |-> TRUE, err |-> "none", val |-> int.val]

\* HeaderReader::read_octal_32: read_string, then the parse as a u32.
read_octal_32(field) == parse_octal(read_string(field), 32)

\* HeaderReader::read_64(len, 8): read_string, then the parse as a u64.
read_64(field) == parse_octal(read_string(field), 64)

\* The error of the first field of a sequence that failed, "none" if none.
FirstErr(fields) ==
  LET bad == {i \in 1..Len(fields) : ~fields[i].ok}
  IN  IF bad = {} THEN "none"
      ELSE fields[CHOOSE i \in bad : \A j \in bad : i <= j].err

\* The fields HeaderReader::read reads, in order: name, mode, uid, gid,
\* size, mtime, checksum, linkname, uname, gname, prefix.
ReadFields(bytes) ==
  << read_cstring(Slice(bytes, 0, 100)),
     read_octal_32(Slice(bytes, 100, 8)),
     read_octal_32(Slice(bytes, 108, 8)),
     read_octal_32(Slice(bytes, 116, 8)),
     read_64(Slice(bytes, 124, 12)), read_64(Slice(bytes, 136, 12)),
     read_octal_32(Slice(bytes, 148, 8)),
     read_cstring(Slice(bytes, 157, 100)),
     read_string(Slice(bytes, 265, 32)), read_string(Slice(bytes, 297, 32)),
     read_string(Slice(bytes, 345, 155)) >>

\* The header HeaderReader::read makes of the fields r it read.
ReadHeaderValue(bytes, r) ==
  [name |-> r[1].val, mode |-> r[2].val, uid |-> r[3].val, gid |-> r[4].val,
   size |-> r[5].val, mtime |-> [secs |-> r[6].val, nanos |-> 0],
   typeflag |-> bytes[157], linkname |-> SomePath(r[8].val),
   magic |-> Slice(bytes, 257, 6), version |-> Slice(bytes, 263, 2),
   uname |-> r[9].val, gname |-> r[10].val,
   devmajor |-> Slice(bytes, 329, 8), devminor |-> Slice(bytes, 337, 8),
   prefix |-> r[11].val]

\* The end of HeaderReader::read: the checksum recomputed from the header
\* that was read is compared with the recorded one.
VerifyChecksum(header, recorded_checksum, expected_checksum) ==
  IF ~expected_checksum.ok
  THEN [ok |-> FALSE, err |-> expected_checksum.err, some |-> FALSE,
        header |-> <<>>]
  ELSE IF expected_checksum.sum # recorded_checksum
  THEN [ok |-> FALSE, err |-> "checksum", some |-> FALSE, header |-> <<>>]
  ELSE [ok |-> TRUE, err |-> "none", some |-> TRUE, header |-> header]

\* header.compute_checksum() of the header that was read, then the
\* comparison.
VerifyHeader(header, recorded_checksum) ==
  VerifyChecksum(header, recorded_checksum, compute_checksum(header))

\* HeaderReader::read past the reading of the fields r: the first error
\* among them ends it, otherwise the header is made and verified.
ReadChecked(bytes, r, err) ==
  IF err # "none"
  THEN [ok |-> FALSE, err |-> err, some |-> FALSE, header |-> <<>>]
  ELSE VerifyHeader(ReadHeaderValue(bytes, r), r[7].val)

\* HeaderReader::read on the fields r it read: a failed read ends it with
\* that field's error.
ReadAll(bytes, r) == ReadChecked(bytes, r, FirstErr(r))

\* HeaderReader::read: every field in order, then the checksum recomputed
\* from the header that was read and compared with the recorded one.
HeaderReader_read(bytes) == ReadAll(bytes, ReadFields(bytes))

\* A zero test that is content with one zero byte.
is_zero_any(buf) == \E i \in 1..Len(buf) : buf[i] = 0

\* The zero test of Header::read: the prefix, the aligned words and the
\* suffix of the buffer are all zero, which is every byte of it.
is_zero(buf) == \A i \in 1..Len(buf) : buf[i] = 0

\* Header::read on a stream at offset pos: 512 bytes (an error if the
\* stream ends before), Ok(None) for a zero block, else the header parsed.
Header_read(stream, pos) ==
  IF pos + BLOCK > Len(stream)
  THEN [ok |-> FALSE, err |-> "eof", some |-> FALSE, header |-> <<>>]
  ELSE LET buf == Slice(stream, pos, BLOCK)
       IN  IF is_zero(buf)
           THEN [ok |-> TRUE, err |-> "none", some |-> FALSE, header |-> <<>>]
           ELSE HeaderReader_read(buf)

(***************************************************************************)
(* The archive file and the operations of src/lib.rs on it                 *)
(***************************************************************************)

VARIABLES
  exists,   \* whether the archive file exists
  archive,  \* the bytes of the archive file
  entries,  \* history: the files the successful writes put in, in order
  last,     \* the last operation: its arguments, its result, the bytes
            \* of the archive before it
  align,    \* one header's size and how far each scanner moved past it
  codec     \* one header, its record and what reading the record gave

vars == <<exists, archive, entries, last, align, codec>>

\* The record of an operation.
Op(op, files, ok, err, names, visited, dir, before) ==
  [op |-> op, files |-> files, ok |-> ok, err |-> err, names |-> names,
   visited |-> visited, dir |-> dir, before |-> before]

\* What an operation that failed to open the archive leaves.
OpenFailed(op, files) ==
  Op(op, files, FALSE, "io", <<>>, <<>>, EmptyDir, <<>>)

NoArchive ==
  /\ exists = FALSE
  /\ archive = <<>>
  /\ entries = <<>>
  /\ last = Op("none", <<>>, TRUE, "none", <<>>, <<>>, EmptyDir, <<>>)

AlignIdle == [size |-> 0, list |-> -1, extract |-> -1]

CodecIdle ==
  [stage |-> "idle", by |-> "none", h |-> <<>>, written |-> FALSE,
   rec |-> <<>>, flip |-> -1, res |-> <<>>]

Init == NoArchive /\ align = AlignIdle /\ codec = CodecIdle

\* minitar -c -f archive files
Create(files) ==
  /\ Len(files) <= MaxEntries
  /\ LET r == create_archive(files)
     IN  /\ exists' = TRUE
         /\ archive' = r.stream
         /\ entries' = IF r.ok THEN files ELSE <<>>
         /\ last' = Op("create", files, r.ok, r.err, <<>>, <<>>, EmptyDir,
                       archive)
  /\ UNCHANGED <<align, codec>>

\* minitar -a -f archive files
AppendFiles(files) ==
  /\ Len(entries) + Len(files) <= MaxEntries
  /\ IF ~exists
     THEN /\ last' = OpenFailed("append", files)
          /\ UNCHANGED <<exists, archive, entries>>
     ELSE LET r == append_to_archive(archive, files)
          IN  /\ archive' = r.stream
              /\ entries' = IF r.ok THEN entries \o files ELSE entries
              /\ last' = Op("append", files, r.ok, r.err, <<>>, <<>>,
                            EmptyDir, archive)
              /\ UNCHANGED exists
  /\ UNCHANGED <<align, codec>>

\* minitar -t -f archive
List ==
  /\ IF ~exists
     THEN last' = OpenFailed("list", <<>>)
     ELSE LET r == get_archive_file_list(archive)
          IN  last' = Op("list", <<>>, r.ok, r.err, r.names, r.visited,
                         EmptyDir, archive)
  /\ UNCHANGED <<exists, archive, entries, align, codec>>

\* minitar -u -f archive files
Update(files) ==
  /\ Len(entries) + Len(files) <= MaxEntries
  /\ IF ~exists
     THEN /\ last' = OpenFailed("update", files)
          /\ UNCHANGED <<exists, archive, entries>>
     ELSE LET r == update_archive(archive, files)
          IN  /\ archive' = r.stream
              /\ entries' = IF r.ok THEN entries \o files ELSE entries
              /\ last' = Op("update", files, r.ok, r.err, <<>>, <<>>,
                            EmptyDir, archive)
              /\ UNCHANGED exists
  /\ UNCHANGED <<align, codec>>

\* minitar -x -f archive, run in an empty directory
Extract ==
  /\ IF ~exists
     THEN last' = OpenFailed("extract", <<>>)
     ELSE LET r == extract_from_archive(archive, FsAround(WorkDir, EmptyDir))
          IN  last' = Op("extract", <<>>, r.ok, r.err, <<>>, r.visited,
                         r.dir, archive)
  /\ UNCHANGED <<exists, archive, entries, align, codec>>

Next ==
  \/ \E files \in FileLists : Create(files)
  \/ \E files \in FileLists : AppendFiles(files)
  \/ List
  \/ \E files \in FileLists : Update(files)
  \/ Extract

Spec == Init /\ [][Next]_vars

(***************************************************************************)
(* The scanners' moves past one header, on sizes no file of the model has  *)
(***************************************************************************)

\* 2^24, the first size from which f32 no longer holds every integer.
F32Limit == 16777216

\* Sizes around the block boundaries, small and just above F32Limit.
AlignSizes ==
  {base + k * BLOCK + d :
     base \in {0, F32Limit}, k \in 0..MaxAlignBlocks, d \in {0, 1, 5, BLOCK - 1}}

\* The header of an entry of n content bytes, as the scanners slice it.
AlignHeader(n) ==
  from_bytes(PadTake(WithNul(NameA), 124) \o WithNul(FormatOct(n, 11))
             \o Zeros(BLOCK - 136)).header

InitAlign ==
  /\ NoArchive
  /\ codec = CodecIdle
  /\ \E n \in AlignSizes : align = [size |-> n, list |-> -1, extract |-> -1]

\* The skip of get_archive_file_list after the header.
ListSkip ==
  /\ align.list = -1
  /\ LET f == ScanFields(AlignHeader(align.size))
     IN  f.ok /\ align' = [align EXCEPT !.list = ListAdvance(f.size)]
  /\ UNCHANGED <<exists, archive, entries, last, codec>>

\* The content read and padding skip of extract_from_archive after the
\* header.
ExtractConsume ==
  /\ align.extract = -1
  /\ LET f == ScanFields(AlignHeader(align.size))
     IN  f.ok /\ align' = [align EXCEPT !.extract = ExtractAdvance(f.size)]
  /\ UNCHANGED <<exists, archive, entries, last, codec>>

NextAlign == ListSkip \/ ExtractConsume

SpecAlign == InitAlign /\ [][NextAlign]_vars

(***************************************************************************)
(* One header through the codecs: built, written, one byte of the record   *)
(* changed or not, and read back                                           *)
(***************************************************************************)

\* A name of n bytes ('n' repeated), and the files with a name or an owner
\* name just below, at and just above the width of its field.
LongName(n) == Repeat(110, n)

LongFiles ==
  {MkFile(LongName(n), Hello) : n \in {99, 100, 101}}
    \cup {[FileA EXCEPT !.uname = LongName(n)] : n \in {31, 32}}
    \cup {[FileA EXCEPT !.gname = LongName(32)]}

\* A file last modified before 1970, and one whose name ("\u00e9.txt" in
\* UTF-8) has bytes above 127.
OddFiles ==
  {[FileA EXCEPT !.mtime = -1], MkFile(<<195, 169, 46, 116, 120, 116>>, Hello)}

\* 2^32 - 1, the largest u32, and 2^32, as wide numbers (37777777777 and
\* 40000000000 in octal).
MaxU32 == <<51>> \o Repeat(55, 10)
FourGiB == <<52>> \o Repeat(48, 10)

\* "big.bin"
NameBig == <<98, 105, 103, 46, 98, 105, 110>>

\* The files headers are built from.
CodecFiles ==
  Files \cup {[FileA EXCEPT !.mtime_nsec = 250], [FileB EXCEPT !.mode = 33261]}
        \cup LongFiles \cup OddFiles

\* Headers are built from these too: a file of 4 GiB and one a byte
\* shorter.  Header::from_file and Header::new take fs::metadata of a file
\* and do not read it: of these two the model keeps the length and not the
\* bytes.
BigFiles == {[MkFile(NameBig, <<>>) EXCEPT !.len = n] : n \in {MaxU32, FourGiB}}

\* Header values put together field by field: with a link name, with an
\* empty one, with a prefix, with an empty name, with a prefix as long as
\* its field.
LiteralHeaders ==
  { [Header_new(FileA) EXCEPT !.linkname = SomePath(<<>>)],
    [Header_new(FileA) EXCEPT !.linkname = SomePath(<<120>>)],
    [Header_new(FileC) EXCEPT !.linkname = SomePath(<<>>), !.prefix = <<112>>],
    [Header_new(FileB) EXCEPT !.linkname = SomePath(<<>>), !.name = <<>>],
    [Header_new(FileA) EXCEPT !.linkname = SomePath(<<>>),
                              !.prefix = LongName(155)] }

\* The offsets of a record a byte is changed at, and the values it is
\* changed to (NUL, '+', '1', '8').
FlipOffsets ==
  {0, 4, 50, 100, 106, 107, 124, 148, 156, 157, 257, 329, 345, 500, 511}

FlipValues == {0, 43, 49, 56}

InitCodec == NoArchive /\ align = AlignIdle /\ codec = CodecIdle

\* Header::new(path)
NewHeader(f) ==
  /\ codec.stage = "idle"
  /\ codec' = [codec EXCEPT !.stage = "header", !.by = "hdr",
                            !.h = Header_new(f)]
  /\ UNCHANGED <<exists, archive, entries, last, align>>

\* Header { name: ..., ... }: the fields are public.
MakeHeader(h) ==
  /\ codec.stage = "idle"
  /\ codec' = [codec EXCEPT !.stage = "header", !.by = "hdr", !.h = h]
  /\ UNCHANGED <<exists, archive, entries, last, align>>

\* Header::write (src/header.rs)
WriteHeader ==
  /\ codec.stage = "header"
  /\ LET w == Header_write(codec.h)
     IN  codec' = [codec EXCEPT !.stage = "written", !.written = w.ok,
                               !.rec = w.bytes]
  /\ UNCHANGED <<exists, archive, entries, last, align>>

\* Header::from_file(name)?.as_bytes() (src/lib.rs); h keeps the file.
FromFile(f) ==
  /\ codec.stage = "idle"
  /\ LET r == from_file(f)
     IN  codec' = [codec EXCEPT !.stage = "written", !.by = "lib", !.h = f,
                               !.written = r.ok,
                               !.rec = IF r.ok THEN as_bytes(r.header)
                                       ELSE <<>>]
  /\ UNCHANGED <<exists, archive, entries, last, align>>

\* One byte of the record is changed to another value.
Flip(off, val) ==
  /\ codec.stage = "written" /\ codec.written /\ codec.flip = -1
  /\ codec.rec[off + 1] # val
  /\ codec' = [codec EXCEPT !.flip = off, !.rec[off + 1] = val]
  /\ UNCHANGED <<exists, archive, entries, last, align>>

\* Header::read (src/header.rs) on the record.
ReadHeader ==
  /\ codec.stage = "written" /\ codec.written
  /\ codec' = [codec EXCEPT !.stage = "read", !.res = Header_read(codec.rec, 0)]
  /\ UNCHANGED <<exists, archive, entries, last, align>>

\* One turn of the scanners' loop (src/lib.rs) on the record: the footer
\* test, Header::from_bytes, the name and the size.
ScanHeader ==
  /\ codec.stage = "written" /\ codec.written
  /\ LET f == ScanFields(from_bytes(codec.rec).header)
     IN  codec' =
           [codec EXCEPT
              !.stage = "scanned",
              !.res = IF IsFooterBlock(codec.rec)
                      THEN [ok |-> TRUE, err |-> "none", some |-> FALSE,
                            header |-> <<>>]
                      ELSE [ok |-> f.ok, err |-> f.err, some |-> f.ok,
                            header |-> [name |-> f.name, size |-> f.size]]]
  /\ UNCHANGED <<exists, archive, entries, last, align>>

NextCodec ==
  \/ \E f \in CodecFiles : NewHeader(f)
  \/ \E f \in BigFiles : NewHeader(f)
  \/ \E h \in LiteralHeaders : MakeHeader(h)
  \/ WriteHeader
  \/ \E f \in CodecFiles : FromFile(f)
  \/ \E f \in BigFiles : FromFile(f)
  \/ \E off \in FlipOffsets, val \in FlipValues : Flip(off, val)
  \/ ReadHeader
  \/ ScanHeader

SpecCodec == InitCodec /\ [][NextCodec]_vars

(***************************************************************************)
(* The claims                                                              *)
(***************************************************************************)

\* ceil(n / 512) * 512
CeilBlocks(n) == ((n + BLOCK - 1) \div BLOCK) * BLOCK

\* What an entry of each file of a list takes in the stream when content is
\* padded to the next block boundary: 512 + ceil(size / 512) * 512 each.
RECURSIVE AlignedSpan(_, _)
AlignedSpan(files, i) ==
  IF i > Len(files) THEN 0
  ELSE BLOCK + CeilBlocks(Len(files[i].content)) + AlignedSpan(files, i + 1)

\* Where a successful create or append started to write.
WriteStart ==
  IF last.op = "create" THEN 0 ELSE Len(last.before) - FOOTER_SIZE

Wrote == last.op \in {"create", "append"} /\ last.ok

\* C1: after a successful create or append the stream has advanced by
\* 512 + ceil(size / 512) * 512 for every file written, and by the footer:
\* content is followed by (512 - size mod 512) mod 512 padding bytes, none
\* when size is a multiple of 512.
C1_WriterAdvance ==
  Wrote =>
    Len(archive) = WriteStart + AlignedSpan(last.files, 1) + FOOTER_SIZE

\* C2: past a header of content length n, the skip of list and the consume
\* of extract each move the stream by ceil(n / 512) * 512 bytes, a multiple
\* of 512.
C2_BlockAlignment ==
  /\ align.list # -1 =>
       align.list = CeilBlocks(align.size) /\ align.list % BLOCK = 0
  /\ align.extract # -1 =>
       align.extract = CeilBlocks(align.size) /\ align.extract % BLOCK = 0

\* C3: a successful list returns the names of all the files the create and
\* the appends put in, each once per occurrence, in that order.
C3_ListReturnsAll ==
  (last.op = "list" /\ last.ok) => last.names = NamesOf(entries)

\* An update that was run on an archive list can walk to its footer.
UpdatedWellFormed ==
  last.op = "update" /\ get_archive_file_list(last.before).ok

\* C4: on a well-formed archive, update succeeds if and only if every
\* requested name is in the output of list; when one is not, it returns the
\* policy error and the archive holds the bytes it held.
C4_SupersetLaw ==
  UpdatedWellFormed =>
    LET listed == Range(get_archive_file_list(last.before).names)
        asked == Range(NamesOf(last.files))
    IN  /\ last.ok <=> asked \subseteq listed
        /\ ~last.ok => last.err = "policy" /\ archive = last.before

C4_Witness ==
  /\ UpdatedWellFormed
  /\ last.err = "policy"
  /\ Len(last.before) > FOOTER_SIZE
  /\ archive = last.before

\* The offset of the header of the i-th file an append wrote, each entry
\* taking its header, its content and the padding the writer gives it.
RECURSIVE AppendedAt(_, _, _)
AppendedAt(start, files, i) ==
  IF i = 1 THEN start
  ELSE LET size == Len(files[i - 1].content)
       IN  AppendedAt(start, files, i - 1) + BLOCK + size + padding_size(size)

\* C5: a successful append to an archive of length L that ends with the
\* footer leaves the bytes before L - 1024 as they were, writes the header
\* of the first new file at L - 1024, the new entries in the order given,
\* and a footer of 1024 zero bytes right after the last entry's padding,
\* where the file ends; with no files the archive is unchanged.
C5_AppendFrame ==
  (last.op = "append" /\ last.ok) =>
    LET start == Len(last.before) - FOOTER_SIZE
        n == Len(last.files)
        end == AppendedAt(start, last.files, n + 1)
    IN  /\ Slice(archive, 0, start) = Slice(last.before, 0, start)
        /\ \A i \in 1..n :
             LET at == AppendedAt(start, last.files, i)
                 size == Len(last.files[i].content)
             IN  /\ Slice(archive, at, BLOCK)
                      = as_bytes(from_file(last.files[i]).header)
                 /\ Slice(archive, at + BLOCK, size) = last.files[i].content
                 /\ is_zero(Slice(archive, at + BLOCK + size,
                                  AppendedAt(start, last.files, i + 1)
                                    - (at + BLOCK + size)))
        /\ Slice(archive, end, FOOTER_SIZE) = Zeros(FOOTER_SIZE)
        /\ Len(archive) = end + FOOTER_SIZE
        /\ n = 0 => archive = last.before

C5_Witness ==
  /\ last.op = "append" /\ last.ok
  /\ Len(last.files) = 1
  /\ Len(last.before) > FOOTER_SIZE
  /\ Slice(archive, Len(last.before) - FOOTER_SIZE, BLOCK)
       = as_bytes(from_file(last.files[1]).header)

\* A record with its checksum field taken as eight spaces.
Spaced(rec) ==
  [i \in 1..Len(rec) |-> IF i \in 149..156 THEN SPACE ELSE rec[i]]

\* The checksum field of a record, parsed, or -1 when it is no octal text.
StoredChecksum(rec) ==
  LET c == read_octal_32(Slice(rec, 148, 8)) IN IF c.ok THEN c.val ELSE -1

\* C6: a record with one byte outside the checksum field (offsets 148 to
\* 155) changed is rejected with the checksum error by decode and by the
\* scanners, and no reader accepts a record whose stored checksum is not
\* the sum of its bytes.
C6_ChecksumSensitivity ==
  codec.stage \in {"read", "scanned"} =>
    /\ (codec.flip # -1 /\ codec.flip \notin 148..155) =>
         ~codec.res.ok /\ codec.res.err = "checksum"
    /\ StoredChecksum(codec.rec) # SumBytes(Spaced(codec.rec)) =>
         ~codec.res.some

\* The block a reader took at the i-th header position of its scan.
VisitedBlock(i) == Slice(last.before, last.visited[i], BLOCK)

\* The offsets of the whole blocks of the archive.
BlockOffsets == {k * BLOCK : k \in 0..(Len(archive) \div BLOCK - 1)}

\* C7: a block read at a header position is all zero exactly when the scan
\* (list, extract) or Header::read stops there with success and no header:
\* no entry is visited after a zero block, and a block with a non-zero byte
\* is never the successful end.  Header::read is no operation of minitar:
\* it is applied here to every block of every archive the operations
\* leave.
C7_EndOfArchive ==
  /\ last.op \in {"list", "extract"} =>
       \A i \in 1..Len(last.visited) :
         (VisitedBlock(i) = Zeros(BLOCK))
           <=> (last.ok /\ i = Len(last.visited))
  /\ (last.op = "list" /\ last.ok) =>
       Len(last.names) = Len(last.visited) - 1
  /\ \A pos \in BlockOffsets :
       \A r \in {Header_read(archive, pos)} :
         (Slice(archive, pos, BLOCK) = Zeros(BLOCK)) <=> (r.ok /\ ~r.some)

C7_Witness ==
  /\ last.op = "list" /\ last.ok
  /\ Len(last.visited) >= 2
  /\ VisitedBlock(Len(last.visited)) = Zeros(BLOCK)
  /\ last.visited[Len(last.visited)] + BLOCK < Len(last.before)
  /\ archive = last.before
  /\ \A r \in {Header_read(archive, last.visited[Len(last.visited)])} :
       r.ok /\ ~r.some
  /\ \E pos \in BlockOffsets : pos > last.visited[Len(last.visited)]
       /\ Header_read(archive, pos).some

\* C8: extract gives back every file create archived, a file of any size
\* with exactly size bytes of content.  For that the turn of the loop of
\* extract on the header Header::from_file wrote for a file gets past the
\* parse of the size field, with the length of the file as its size.
C8_ExtractAnySize ==
  (codec.stage = "scanned" /\ codec.by = "lib" /\ codec.flip = -1) =>
    codec.res.ok /\ codec.res.some /\ codec.res.header.size = codec.h.len

\* C9: reading the record Header::write made of a header gives back a
\* header with every field equal to the original's.
C9_HeaderRoundTrip ==
  (codec.stage = "read" /\ codec.by = "hdr" /\ codec.flip = -1) =>
    codec.res.ok /\ codec.res.some /\ codec.res.header = codec.h

\* C10: the checksum field of a record an encoder made holds seven
\* zero-padded octal digits and a NUL, the digits of the sum of the 512
\* bytes of the record with the field taken as eight spaces; the buffer
\* Header::compute_checksum sums is the record with those spaces.
C10_ChecksumRule ==
  (codec.stage = "written" /\ codec.written /\ codec.flip = -1) =>
    /\ Len(codec.rec) = BLOCK
    /\ Slice(codec.rec, 148, 8)
         = WithNul(FormatOct(SumBytes(Spaced(codec.rec)), 7))
    /\ Len(FormatOct(SumBytes(Spaced(codec.rec)), 7)) = 7
    /\ codec.by = "hdr" => write_unsummed(codec.h).bytes = Spaced(codec.rec)

C10_Witness ==
  /\ codec.stage = "written" /\ codec.written /\ codec.flip = -1
  /\ codec.by = "lib"
  /\ StoredChecksum(codec.rec) = SumBytes(Spaced(codec.rec))

\* The string fields of the header being encoded, each with the width of its
\* field: name, uname and gname, and for the typed header the prefix.
StringFields ==
  << <<codec.h.name, 100>>, <<codec.h.uname, 32>>, <<codec.h.gname, 32>> >>
    \o (IF codec.by = "hdr" THEN << <<codec.h.prefix, 155>> >> ELSE <<>>)

\* A string field does not fit its field together with its terminator.
Overlong ==
  \E i \in 1..Len(StringFields) :
    Len(StringFields[i][1]) + 1 > StringFields[i][2]

\* C11: encoding a header fails, and puts out no record, whenever a string
\* field (name 100, uname and gname 32, prefix 155) with its null terminator
\* is longer than the field; a name of 100 or more bytes is rejected.
C11_OverlongRejected ==
  (codec.stage = "written" /\ codec.flip = -1 /\ Overlong)
    => (~codec.written /\ codec.rec = <<>>)

\* The permission bits of a file mode: its low nine bits.
PermissionBits(st_mode) == st_mode % 512

\* The mode field of the record: 8 bytes at offset 100.
ModeField == Slice(codec.rec, 100, 8)

\* C12: for every file mode, the mode field Header::from_file writes is the
\* 7-digit zero-padded octal text, with its terminator, of the low nine bits
\* of st_mode, and parsing it as octal gives back those bits.
C12_ModeIsPermissionBits ==
  (codec.stage = "written" /\ codec.by = "lib" /\ codec.written
     /\ codec.flip = -1)
    => /\ ModeField = WithNul(FormatOct(PermissionBits(codec.h.mode), 7))
       /\ LET p == FromStrRadix8(TakeWhileNonZero(ModeField), 32)
          IN  p.ok /\ p.val = PermissionBits(codec.h.mode)

\* Two entries of the list have the same name.
HasDuplicate(files) ==
  \E i, j \in 1..Len(files) : i < j /\ files[i].name = files[j].name

\* The entry at i is the last of its name in the list.
LastOfName(files, i) ==
  \A j \in (i + 1)..Len(files) : files[j].name # files[i].name

\* The name in the header extract visited as its i-th.
VisitedName(i) ==
  ScanFields(from_bytes(Slice(last.before, last.visited[i], BLOCK)).header).name

\* C13: extract of an archive that holds several entries of one name (as a
\* successful update leaves it) visits the entries in archive order, one
\* header per entry at increasing offsets, and truncates the file for each,
\* so the file at every name ends holding exactly the content of the last
\* entry of that name.
C13_LastEntryWins ==
  (last.op = "extract" /\ exists /\ HasDuplicate(entries)) =>
    /\ last.ok
    /\ Len(last.visited) = Len(entries) + 1
    /\ \A i \in 1..Len(entries) :
         /\ last.visited[i] < last.visited[i + 1]
         /\ VisitedName(i) = entries[i].name
    /\ DOMAIN last.dir = Range(NamesOf(entries))
    /\ \A i \in 1..Len(entries) :
         LastOfName(entries, i) =>
           last.dir[entries[i].name] = entries[i].content

\* An extract after an update put a shorter content behind a longer one of
\* the same name: the file holds the shorter one alone.
C13_Witness ==
  /\ last.op = "extract" /\ last.ok
  /\ Len(entries) = 2 /\ entries[1].name = entries[2].name
  /\ Len(entries[2].content) < Len(entries[1].content)
  /\ Len(entries[2].content) > 0
  /\ last.dir[entries[2].name] = entries[2].content

====
